---- MODULE Spec2Model ----
(***************************************************************************)
(* Modbus -> MQTT bridge: the polling threads (DevicePoller.run), the      *)
(* transport registry (ModbusPoller.get_client / poll_device / close_all)  *)
(* and the bridge's main thread (ModbusMQTTBridge.run / stop and the       *)
(* signal handler that interrupts it).                                     *)
(***************************************************************************)
EXTENDS Integers, Sequences, FiniteSets, TLC

\* ---- bounds of the model -------------------------------------------------
NumDevices == 2      \* configured devices, one polling thread each
NumKeys == 2         \* distinct transport keys (port_baudrate_parity)
MaxRegs == 2         \* registers per device
MaxOpens == 2        \* successful ModbusSerialClient.connect() calls in a run
MaxSignals == 1      \* SIGINT/SIGTERM deliveries in a run
MaxTags == 2         \* tags of the Reading handed to one publish call
MaxClock == 2        \* clock readings that differ during one publish call
MaxMultiplier == 2   \* a register's multiplier is in 1..MaxMultiplier
MaxDivider == 3      \* a register's divider is in 0..MaxDivider
MaxFiles == 2        \* usb*_config.json files in the configuration directory
MaxSlaves == 2       \* slaves of one configuration file

Units == 1..NumDevices
Keys == 1..NumKeys
Conns == 1..MaxOpens

\* what one register read can come to (read_register's branches)
Outcomes == {"ok", "errorResponse", "modbusException", "decodeFail"}

VARIABLES
    keyOf,          \* device -> transport key (configuration)
    nregs,          \* device -> number of registers (configuration)
    pc,             \* polling thread -> position in DevicePoller.run
    running,        \* DevicePoller.running
    client,         \* poll_device's local `client` (0: none)
    myLock,         \* the lock object poll_device evaluated self.locks[key] to
    idx,            \* registers of the current sweep already read
    data,           \* poll_device's `data`: tags decoded in the current sweep
    attempted,      \* registers read_register was called on, in call order
    succeeded,      \* registers whose read and decode both succeeded
    paces,          \* time.sleep(0.08) calls of the current sweep
    reading,        \* status of the Reading the last poll_device returned
    lastPub,        \* what run() did with that Reading
    clients,        \* ModbusPoller.clients, in insertion order
    locks,          \* ModbusPoller.locks (0: no entry)
    createLock,     \* holder of client_create_lock (0: free)
    lockHolder,     \* holder of each key lock object (0: free)
    opens,          \* connections opened so far (the next one is opens + 1)
    openedFor,      \* connection -> key it was opened for (0: not opened)
    closed,         \* connections close_all has closed
    stack,          \* the main thread's call frames, innermost last
    bridgeRunning,  \* ModbusMQTTBridge.running
    signals,        \* signals delivered so far
    exited,         \* the process has ended (daemon threads die with it)
    stopAsked,      \* threads whose stop() has been called
    joinTimedOut,   \* threads whose join(timeout=5) returned on the timeout
    closeAllCalls   \* close_all() invocations

\* one call of MQTTPublisher.publish
VARIABLES
    connected,      \* MQTTPublisher.connected
    now,            \* what datetime.utcnow() returns at this moment
    deviceData,     \* the device_data argument: its status and its data tags
    pubPc,          \* position in publish
    timestamp,      \* publish's local `timestamp`
    rc,             \* result.rc of the telemetry publish
    published,      \* the client.publish calls made so far, in call order
    pubRet          \* what publish returned

\* one register from its configuration entry to its decoded value
VARIABLES
    regConfig,      \* the reg_config entry handed to _parse_register
    register,       \* the ModbusRegister _parse_register returned
    byteOrder,      \* device.byte_order
    wordOrder,      \* device.word_order
    registers,      \* result.registers of the read
    value,          \* _decode_registers' local `value`, before scaling
    decoded,        \* what _decode_registers returned
    tagData,        \* poll_device's `data`: the values under register.tag
    decPc           \* how far the register has come

\* the loading of the configuration files at start-up
VARIABLES
    configFiles,    \* load_configs' config_files: the slaves of each file
    fileIdx,        \* the file the loop of load_configs is at
    slaveIdx,       \* the slave the loop of parse_thingsboard_config is at
    fileDevices,    \* parse_thingsboard_config's local `devices`
    devices,        \* ModbusMQTTBridge.devices
    loadPc          \* position in run

cfgVars == <<keyOf, nregs>>
unitVars == <<pc, running, client, myLock, idx, data, attempted, succeeded,
              paces, reading, lastPub>>
regVars == <<clients, locks, createLock, lockHolder, opens, openedFor, closed>>
mainVars == <<stack, bridgeRunning, signals, exited, stopAsked, joinTimedOut,
              closeAllCalls>>
bridgeVars == <<cfgVars, unitVars, regVars, mainVars>>
pubVars == <<connected, now, deviceData, pubPc, timestamp, rc, published,
             pubRet>>
\* the variables of the single calls modelled on their own, which the threads
\* of the bridge leave alone
decVars == <<regConfig, register, byteOrder, wordOrder, registers, value,
             decoded, tagData, decPc>>
loadVars == <<configFiles, fileIdx, slaveIdx, fileDevices, devices, loadPc>>
fnVars == <<pubVars, decVars, loadVars>>
\* what a publish call leaves alone, what the decoding of a register does,
\* and what the loading of the configuration does
pubOthers == <<bridgeVars, decVars, loadVars>>
decOthers == <<bridgeVars, pubVars, loadVars>>
loadOthers == <<bridgeVars, pubVars, decVars>>
vars == <<bridgeVars, fnVars>>

\* ---- the clients dict ------------------------------------------------------
HasClient(k) == \E j \in 1..Len(clients) : clients[j].key = k

ClientOf(k) == LET j == CHOOSE j \in 1..Len(clients) : clients[j].key = k
               IN clients[j].conn

\* an error response taken for a value instead of None
ReadRegisterErrorAsValue(outcome) ==
    IF outcome \in {"ok", "errorResponse"} THEN "value" ELSE "None"

\* ---- read_register ---------------------------------------------------------
\* None for an error response, a caught exception or a failed decode
ReadRegister(outcome) == IF outcome = "ok" THEN "value" ELSE "None"

Frame(proc, p) == [proc |-> proc, pc |-> p, i |-> 0, size |-> 0]

Top == stack[Len(stack)]

\* publish's `timestamp` before line 100 has run
NoTime == -1

\* no publish call is being looked at
PublisherIdle ==
    /\ connected = FALSE
    /\ now = 0
    /\ deviceData = [status |-> "none", data |-> {}]
    /\ pubPc = "idle"
    /\ timestamp = NoTime
    /\ rc = "none"
    /\ published = <<>>
    /\ pubRet = "none"

BridgeInit ==
    /\ keyOf \in {f \in [Units -> Keys] : f[1] = 1}
    /\ nregs \in [Units -> 1..MaxRegs]
    /\ pc = [u \in Units |-> "idle"]
    /\ running = [u \in Units |-> FALSE]
    /\ client = [u \in Units |-> 0]
    /\ myLock = [u \in Units |-> 0]
    /\ idx = [u \in Units |-> 0]
    /\ data = [u \in Units |-> {}]
    /\ attempted = [u \in Units |-> <<>>]
    /\ succeeded = [u \in Units |-> {}]
    /\ paces = [u \in Units |-> 0]
    /\ reading = [u \in Units |-> "none"]
    /\ lastPub = [u \in Units |-> "none"]
    /\ clients = <<>>
    /\ locks = [k \in Keys |-> 0]
    /\ createLock = 0
    /\ lockHolder = [c \in Conns |-> 0]
    /\ opens = 0
    /\ openedFor = [c \in Conns |-> 0]
    /\ closed = {}
    /\ stack = <<Frame("run", "start_polling")>>
    /\ bridgeRunning = FALSE
    /\ signals = 0
    /\ exited = FALSE
    /\ stopAsked = {}
    /\ joinTimedOut = {}
    /\ closeAllCalls = 0

\* a Python value: None, an int (its sign and its magnitude man), a float
\* man * 2^exp (man odd or 0), or the float whose IEEE bit pattern is man
PyValue(kind, neg, man, exp) ==
    [kind |-> kind, neg |-> neg, man |-> man, exp |-> exp]

None == PyValue("None", FALSE, <<>>, 0)

\* no register is being looked at
DecoderIdle ==
    /\ regConfig = [type |-> "none"]
    /\ register = None
    /\ byteOrder = "BIG"
    /\ wordOrder = "BIG"
    /\ registers = <<>>
    /\ value = None
    /\ decoded = None
    /\ tagData = {}
    /\ decPc = "idle"

\* the configuration has been loaded and is not looked at again
LoaderIdle ==
    /\ configFiles = <<>>
    /\ fileIdx = 0
    /\ slaveIdx = 0
    /\ fileDevices = <<>>
    /\ devices = <<>>
    /\ loadPc = "idle"

Init ==
    /\ BridgeInit
    /\ PublisherIdle
    /\ DecoderIdle
    /\ LoaderIdle

\* ---- DevicePoller.run ------------------------------------------------------
KeepLocals ==
    UNCHANGED <<client, myLock, idx, data, attempted, succeeded, paces>>

ResetLocals(u) ==
    /\ client' = [client EXCEPT ![u] = 0]
    /\ myLock' = [myLock EXCEPT ![u] = 0]
    /\ idx' = [idx EXCEPT ![u] = 0]
    /\ data' = [data EXCEPT ![u] = {}]
    /\ attempted' = [attempted EXCEPT ![u] = <<>>]
    /\ succeeded' = [succeeded EXCEPT ![u] = {}]
    /\ paces' = [paces EXCEPT ![u] = 0]

\* the try block around the loop instead of inside it: a fault ends the thread
RunExceptOutsideLoop == "done"

\* lines 59-62: where an exception raised inside the try block takes the
\* thread: the except clause inside the loop, which sleeps the cooldown
RunExcept == "cooldown"

\* line 43: self.running = True, the first statement the thread executes
RunStart(u) ==
    /\ ~exited
    /\ pc[u] = "started"
    /\ running' = [running EXCEPT ![u] = TRUE]
    /\ pc' = [pc EXCEPT ![u] = "loop"]
    /\ KeepLocals
    /\ UNCHANGED fnVars
    /\ UNCHANGED <<cfgVars, reading, lastPub, regVars, mainVars>>

\* line 45: while self.running
RunLoop(u) ==
    /\ ~exited
    /\ pc[u] = "loop"
    /\ pc' = [pc EXCEPT ![u] = IF running[u] THEN "poll" ELSE "done"]
    /\ reading' = [reading EXCEPT ![u] = "none"]
    /\ lastPub' = [lastPub EXCEPT ![u] = "none"]
    /\ KeepLocals
    /\ UNCHANGED fnVars
    /\ UNCHANGED <<cfgVars, running, regVars, mainVars>>

\* ---- ModbusPoller.get_client ----------------------------------------------
\* line 27: with self.client_create_lock
GetClientEnter(u) ==
    /\ ~exited
    /\ pc[u] = "poll"
    /\ createLock = 0
    /\ createLock' = u
    /\ pc' = [pc EXCEPT ![u] = "gc_check"]
    /\ KeepLocals
    /\ UNCHANGED fnVars
    /\ UNCHANGED <<cfgVars, running, reading, lastPub, clients, locks,
                   lockHolder, opens, openedFor, closed, mainVars>>

\* line 28: if key not in self.clients; when it is there the with block ends
\* and client_create_lock is released
GetClientCheck(u) ==
    /\ ~exited
    /\ pc[u] = "gc_check"
    /\ IF HasClient(keyOf[u])
       THEN /\ createLock' = 0
            /\ pc' = [pc EXCEPT ![u] = "gc_ret"]
       ELSE /\ createLock' = createLock
            /\ pc' = [pc EXCEPT ![u] = "gc_connect"]
    /\ KeepLocals
    /\ UNCHANGED fnVars
    /\ UNCHANGED <<cfgVars, running, reading, lastPub, clients, locks,
                   lockHolder, opens, openedFor, closed, mainVars>>

\* the open fails and None is returned with client_create_lock still held
GetClientConnectFailKeepLock(u) ==
    /\ ~exited
    /\ pc[u] = "gc_connect"
    /\ createLock' = createLock
    /\ reading' = [reading EXCEPT ![u] = "disconnected"]
    /\ pc' = [pc EXCEPT ![u] = "got_reading"]
    /\ KeepLocals
    /\ UNCHANGED fnVars
    /\ UNCHANGED <<cfgVars, running, lastPub, clients, locks, lockHolder,
                   opens, openedFor, closed, mainVars>>

\* lines 32-43: the open fails, return None releases client_create_lock and
\* poll_device returns the disconnected Reading (lines 165-172)
GetClientConnectFail(u) ==
    /\ ~exited
    /\ pc[u] = "gc_connect"
    /\ createLock' = 0
    /\ reading' = [reading EXCEPT ![u] = "disconnected"]
    /\ pc' = [pc EXCEPT ![u] = "got_reading"]
    /\ KeepLocals
    /\ UNCHANGED fnVars
    /\ UNCHANGED <<cfgVars, running, lastPub, clients, locks, lockHolder,
                   opens, openedFor, closed, mainVars>>

\* lines 32-47: the open succeeds; the client and a new lock are registered
\* and the with block ends
GetClientConnectOk(u) ==
    /\ ~exited
    /\ pc[u] = "gc_connect"
    /\ opens < MaxOpens
    /\ opens' = opens + 1
    /\ openedFor' = [openedFor EXCEPT ![opens + 1] = keyOf[u]]
    /\ clients' = Append(clients, [key |-> keyOf[u], conn |-> opens + 1])
    /\ locks' = [locks EXCEPT ![keyOf[u]] = opens + 1]
    /\ createLock' = 0
    /\ pc' = [pc EXCEPT ![u] = "gc_ret"]
    /\ KeepLocals
    /\ UNCHANGED fnVars
    /\ UNCHANGED <<cfgVars, running, reading, lastPub, lockHolder, closed,
                   mainVars>>

\* line 49: return self.clients[key], outside the with block; a missing key
\* is a KeyError that leaves poll_device
GetClientReturn(u) ==
    /\ ~exited
    /\ pc[u] = "gc_ret"
    /\ IF HasClient(keyOf[u])
       THEN /\ client' = [client EXCEPT ![u] = ClientOf(keyOf[u])]
            /\ pc' = [pc EXCEPT ![u] = "pd_lookup"]
       ELSE /\ client' = client
            /\ pc' = [pc EXCEPT ![u] = RunExcept]
    /\ UNCHANGED <<myLock, idx, data, attempted, succeeded, paces>>
    /\ UNCHANGED fnVars
    /\ UNCHANGED <<cfgVars, running, reading, lastPub, regVars, mainVars>>

\* ---- ModbusPoller.poll_device ---------------------------------------------
\* line 176: self.locks[key] is evaluated
PollLockLookup(u) ==
    /\ ~exited
    /\ pc[u] = "pd_lookup"
    /\ myLock' = [myLock EXCEPT ![u] = locks[keyOf[u]]]
    /\ pc' = [pc EXCEPT ![u] = "pd_acquire"]
    /\ UNCHANGED <<client, idx, data, attempted, succeeded, paces>>
    /\ UNCHANGED fnVars
    /\ UNCHANGED <<cfgVars, running, reading, lastPub, regVars, mainVars>>

\* line 176: the with statement acquires that lock; lines 177-178
PollLockAcquire(u) ==
    /\ ~exited
    /\ pc[u] = "pd_acquire"
    /\ lockHolder[myLock[u]] = 0
    /\ lockHolder' = [lockHolder EXCEPT ![myLock[u]] = u]
    /\ pc' = [pc EXCEPT ![u] = "read"]
    /\ KeepLocals
    /\ UNCHANGED fnVars
    /\ UNCHANGED <<cfgVars, running, reading, lastPub, clients, locks,
                   createLock, opens, openedFor, closed, mainVars>>

\* lines 181-184: read_register on the next register, in declaration order
PollRead(u) ==
    /\ ~exited
    /\ pc[u] = "read"
    /\ \E o \in Outcomes :
          /\ data' = [data EXCEPT ![u] = IF ReadRegister(o) # "None"
                                         THEN @ \cup {idx[u] + 1} ELSE @]
          /\ succeeded' = [succeeded EXCEPT ![u] = IF o = "ok"
                                                   THEN @ \cup {idx[u] + 1}
                                                   ELSE @]
    /\ attempted' = [attempted EXCEPT ![u] = Append(@, idx[u] + 1)]
    /\ pc' = [pc EXCEPT ![u] = "pace"]
    /\ UNCHANGED <<client, myLock, idx, paces>>
    /\ UNCHANGED fnVars
    /\ UNCHANGED <<cfgVars, running, reading, lastPub, regVars, mainVars>>

\* the Reading returned from inside the with block without the lock released
PollPaceKeepLock(u) ==
    /\ ~exited
    /\ pc[u] = "pace"
    /\ paces' = [paces EXCEPT ![u] = @ + 1]
    /\ idx' = [idx EXCEPT ![u] = @ + 1]
    /\ IF idx[u] + 1 < nregs[u]
       THEN /\ pc' = [pc EXCEPT ![u] = "read"]
            /\ UNCHANGED reading
       ELSE /\ pc' = [pc EXCEPT ![u] = "got_reading"]
            /\ reading' = [reading EXCEPT ![u] = IF data[u] # {}
                                                  THEN "connected"
                                                  ELSE "error"]
    /\ UNCHANGED <<client, myLock, data, attempted, succeeded>>
    /\ UNCHANGED fnVars
    /\ UNCHANGED <<cfgVars, running, lastPub, regVars, mainVars>>

\* the status taken from the registers read instead of the values decoded
PollPaceStatusByReads(u) ==
    /\ ~exited
    /\ pc[u] = "pace"
    /\ paces' = [paces EXCEPT ![u] = @ + 1]
    /\ idx' = [idx EXCEPT ![u] = @ + 1]
    /\ IF idx[u] + 1 < nregs[u]
       THEN /\ pc' = [pc EXCEPT ![u] = "read"]
            /\ UNCHANGED <<lockHolder, reading>>
       ELSE /\ pc' = [pc EXCEPT ![u] = "got_reading"]
            /\ lockHolder' = [lockHolder EXCEPT ![myLock[u]] = 0]
            /\ reading' = [reading EXCEPT ![u] = IF attempted[u] # <<>>
                                                  THEN "connected"
                                                  ELSE "error"]
    /\ UNCHANGED <<client, myLock, data, attempted, succeeded>>
    /\ UNCHANGED fnVars
    /\ UNCHANGED <<cfgVars, running, lastPub, clients, locks, createLock,
                   opens, openedFor, closed, mainVars>>

\* line 187: time.sleep(0.08), inside the for loop and inside the with block;
\* after the last register the with block ends and the Reading is returned
PollPace(u) ==
    /\ ~exited
    /\ pc[u] = "pace"
    /\ paces' = [paces EXCEPT ![u] = @ + 1]
    /\ idx' = [idx EXCEPT ![u] = @ + 1]
    /\ IF idx[u] + 1 < nregs[u]
       THEN /\ pc' = [pc EXCEPT ![u] = "read"]
            /\ UNCHANGED <<lockHolder, reading>>
       ELSE /\ pc' = [pc EXCEPT ![u] = "got_reading"]
            /\ lockHolder' = [lockHolder EXCEPT ![myLock[u]] = 0]
            /\ reading' = [reading EXCEPT ![u] = IF data[u] # {}
                                                  THEN "connected"
                                                  ELSE "error"]
    /\ UNCHANGED <<client, myLock, data, attempted, succeeded>>
    /\ UNCHANGED fnVars
    /\ UNCHANGED <<cfgVars, running, lastPub, clients, locks, createLock,
                   opens, openedFor, closed, mainVars>>

\* ---- DevicePoller.run, after poll_device -----------------------------------
\* lines 51-54: publish only when the Reading has data
RunCheckData(u) ==
    /\ ~exited
    /\ pc[u] = "got_reading"
    /\ IF data[u] # {}
       THEN /\ pc' = [pc EXCEPT ![u] = "publish"]
            /\ lastPub' = lastPub
            /\ KeepLocals
       ELSE /\ pc' = [pc EXCEPT ![u] = "sleep"]
            /\ lastPub' = [lastPub EXCEPT ![u] = "skipped"]
            /\ ResetLocals(u)
    /\ UNCHANGED fnVars
    /\ UNCHANGED <<cfgVars, running, reading, regVars, mainVars>>

\* line 52 and mqtt_publisher.py lines 92-140: publish reads self.connected
\* (set by the MQTT network thread's callbacks, lines 31-46) and returns,
\* having sent the status message when it is True and nothing otherwise
PublishReturn(u) ==
    /\ ~exited
    /\ pc[u] = "publish"
    /\ \E isConnected \in BOOLEAN :
          lastPub' = [lastPub EXCEPT ![u] = IF isConnected THEN "sent"
                                            ELSE "dropped"]
    /\ pc' = [pc EXCEPT ![u] = "sleep"]
    /\ ResetLocals(u)
    /\ UNCHANGED fnVars
    /\ UNCHANGED <<cfgVars, running, reading, regVars, mainVars>>

\* line 52: the MQTT client library raises inside publish
PublishRaise(u) ==
    /\ ~exited
    /\ pc[u] = "publish"
    /\ lastPub' = [lastPub EXCEPT ![u] = "raised"]
    /\ pc' = [pc EXCEPT ![u] = RunExcept]
    /\ ResetLocals(u)
    /\ UNCHANGED fnVars
    /\ UNCHANGED <<cfgVars, running, reading, regVars, mainVars>>

\* line 57: time.sleep(self.device.poll_interval) ends
RunSleep(u) ==
    /\ ~exited
    /\ pc[u] = "sleep"
    /\ pc' = [pc EXCEPT ![u] = "loop"]
    /\ KeepLocals
    /\ UNCHANGED fnVars
    /\ UNCHANGED <<cfgVars, running, reading, lastPub, regVars, mainVars>>

\* line 62: time.sleep(5) ends
RunCooldown(u) ==
    /\ ~exited
    /\ pc[u] = "cooldown"
    /\ pc' = [pc EXCEPT ![u] = "loop"]
    /\ KeepLocals
    /\ UNCHANGED fnVars
    /\ UNCHANGED <<cfgVars, running, reading, lastPub, regVars, mainVars>>

\* ---- the main thread: ModbusMQTTBridge.run ---------------------------------
SetTop(f) == [stack EXCEPT ![Len(stack)] = f]

Pop == SubSeq(stack, 1, Len(stack) - 1)

AtMain(proc, p) ==
    /\ ~exited
    /\ stack # <<>>
    /\ Top.proc = proc
    /\ Top.pc = p

\* main.py lines 135-142: the next DevicePoller is started and appended
StartThread ==
    /\ AtMain("run", "start_polling")
    /\ Top.i < NumDevices
    /\ pc' = [pc EXCEPT ![Top.i + 1] = "started"]
    /\ stack' = SetTop([Top EXCEPT !.i = @ + 1])
    /\ KeepLocals
    /\ UNCHANGED fnVars
    /\ UNCHANGED <<cfgVars, running, reading, lastPub, regVars, bridgeRunning,
                   signals, exited, stopAsked, joinTimedOut, closeAllCalls>>

\* line 169: self.running = True, once start_polling has returned
SetRunning ==
    /\ AtMain("run", "start_polling")
    /\ Top.i = NumDevices
    /\ bridgeRunning' = TRUE
    /\ stack' = SetTop([Top EXCEPT !.pc = "main_loop"])
    /\ UNCHANGED fnVars
    /\ UNCHANGED <<cfgVars, unitVars, regVars, signals, exited, stopAsked,
                   joinTimedOut, closeAllCalls>>

\* lines 175-180: the loop ends once running is False; finally calls stop()
MainLoopExit ==
    /\ AtMain("run", "main_loop")
    /\ ~bridgeRunning
    /\ stack' = Append(SetTop([Top EXCEPT !.pc = "return"]),
                       Frame("stop", "check"))
    /\ UNCHANGED fnVars
    /\ UNCHANGED <<cfgVars, unitVars, regVars, bridgeRunning, signals, exited,
                   stopAsked, joinTimedOut, closeAllCalls>>

\* line 182 and main(): run() returns and sys.exit ends the process
RunReturn ==
    /\ AtMain("run", "return")
    /\ exited' = TRUE
    /\ stack' = <<>>
    /\ UNCHANGED fnVars
    /\ UNCHANGED <<cfgVars, unitVars, regVars, bridgeRunning, signals,
                   stopAsked, joinTimedOut, closeAllCalls>>

\* lines 87-90: a signal interrupts the main thread wherever it is and the
\* handler calls stop()
Signal ==
    /\ ~exited
    /\ signals < MaxSignals
    /\ signals' = signals + 1
    /\ stack' = Append(stack, Frame("stop", "check"))
    /\ UNCHANGED fnVars
    /\ UNCHANGED <<cfgVars, unitVars, regVars, bridgeRunning, exited,
                   stopAsked, joinTimedOut, closeAllCalls>>

\* ---- ModbusMQTTBridge.stop -------------------------------------------------
\* lines 186-187: if not self.running: return
StopCheck ==
    /\ AtMain("stop", "check")
    /\ stack' = IF bridgeRunning THEN SetTop([Top EXCEPT !.pc = "clear"])
                ELSE Pop
    /\ UNCHANGED fnVars
    /\ UNCHANGED <<cfgVars, unitVars, regVars, bridgeRunning, signals, exited,
                   stopAsked, joinTimedOut, closeAllCalls>>

\* line 190: self.running = False
StopClear ==
    /\ AtMain("stop", "clear")
    /\ bridgeRunning' = FALSE
    /\ stack' = SetTop([Top EXCEPT !.pc = "stop_threads", !.i = 0])
    /\ UNCHANGED fnVars
    /\ UNCHANGED <<cfgVars, unitVars, regVars, signals, exited, stopAsked,
                   joinTimedOut, closeAllCalls>>

\* stop() without its join loop: close_all right after the stop requests
StopThreadsNoJoin ==
    /\ AtMain("stop", "stop_threads")
    /\ IF Top.i < NumDevices
       THEN /\ running' = [running EXCEPT ![Top.i + 1] = FALSE]
            /\ stopAsked' = stopAsked \cup {Top.i + 1}
            /\ stack' = SetTop([Top EXCEPT !.i = @ + 1])
       ELSE /\ stack' = SetTop([Top EXCEPT !.pc = "join", !.i = NumDevices])
            /\ UNCHANGED <<running, stopAsked>>
    /\ KeepLocals
    /\ UNCHANGED fnVars
    /\ UNCHANGED <<cfgVars, pc, reading, lastPub, regVars, bridgeRunning,
                   signals, exited, joinTimedOut, closeAllCalls>>

\* lines 193-194 and DevicePoller.stop (lines 64-67)
StopThreads ==
    /\ AtMain("stop", "stop_threads")
    /\ IF Top.i < NumDevices
       THEN /\ running' = [running EXCEPT ![Top.i + 1] = FALSE]
            /\ stopAsked' = stopAsked \cup {Top.i + 1}
            /\ stack' = SetTop([Top EXCEPT !.i = @ + 1])
       ELSE /\ stack' = SetTop([Top EXCEPT !.pc = "join", !.i = 0])
            /\ UNCHANGED <<running, stopAsked>>
    /\ KeepLocals
    /\ UNCHANGED fnVars
    /\ UNCHANGED <<cfgVars, pc, reading, lastPub, regVars, bridgeRunning,
                   signals, exited, joinTimedOut, closeAllCalls>>

\* lines 197-198: thread.join(timeout=5) returns because the thread ended
StopJoin ==
    /\ AtMain("stop", "join")
    /\ Top.i < NumDevices
    /\ pc[Top.i + 1] = "done"
    /\ stack' = SetTop([Top EXCEPT !.i = @ + 1])
    /\ UNCHANGED fnVars
    /\ UNCHANGED <<cfgVars, unitVars, regVars, bridgeRunning, signals, exited,
                   stopAsked, joinTimedOut, closeAllCalls>>

\* lines 197-198: thread.join(timeout=5) gives up on a thread still alive
StopJoinTimeout ==
    /\ AtMain("stop", "join")
    /\ Top.i < NumDevices
    /\ pc[Top.i + 1] # "done"
    /\ joinTimedOut' = joinTimedOut \cup {Top.i + 1}
    /\ stack' = SetTop([Top EXCEPT !.i = @ + 1])
    /\ UNCHANGED fnVars
    /\ UNCHANGED <<cfgVars, unitVars, regVars, bridgeRunning, signals, exited,
                   stopAsked, closeAllCalls>>

\* ---- ModbusPoller.close_all ------------------------------------------------
\* line 201: the call, and the iterator over self.clients.items() is created
CloseAllBegin ==
    /\ AtMain("stop", "join")
    /\ Top.i = NumDevices
    /\ closeAllCalls' = closeAllCalls + 1
    /\ stack' = SetTop([Top EXCEPT !.pc = "ca_iter", !.i = 0,
                                   !.size = Len(clients)])
    /\ UNCHANGED fnVars
    /\ UNCHANGED <<cfgVars, unitVars, regVars, bridgeRunning, signals, exited,
                   stopAsked, joinTimedOut>>

\* lines 201-203: the next item of the iteration is closed
CloseAllNext ==
    /\ AtMain("stop", "ca_iter")
    /\ Len(clients) = Top.size
    /\ IF Top.i < Top.size
       THEN /\ closed' = closed \cup {clients[Top.i + 1].conn}
            /\ stack' = SetTop([Top EXCEPT !.i = @ + 1])
       ELSE /\ closed' = closed
            /\ stack' = SetTop([Top EXCEPT !.pc = "ca_clear"])
    /\ UNCHANGED fnVars
    /\ UNCHANGED <<cfgVars, unitVars, clients, locks, createLock, lockHolder,
                   opens, openedFor, bridgeRunning, signals, exited,
                   stopAsked, joinTimedOut, closeAllCalls>>

\* line 201: the dict changed size during the iteration: RuntimeError, which
\* leaves close_all, stop and run (whose finally finds running False) and
\* ends the process
CloseAllRaise ==
    /\ AtMain("stop", "ca_iter")
    /\ Len(clients) # Top.size
    /\ exited' = TRUE
    /\ stack' = <<>>
    /\ UNCHANGED fnVars
    /\ UNCHANGED <<cfgVars, unitVars, regVars, bridgeRunning, signals,
                   stopAsked, joinTimedOut, closeAllCalls>>

\* line 204: self.clients.clear(); self.locks is left as it is
CloseAllClear ==
    /\ AtMain("stop", "ca_clear")
    /\ clients' = <<>>
    /\ stack' = SetTop([Top EXCEPT !.pc = "disconnect"])
    /\ UNCHANGED fnVars
    /\ UNCHANGED <<cfgVars, unitVars, locks, createLock, lockHolder, opens,
                   openedFor, closed, bridgeRunning, signals, exited,
                   stopAsked, joinTimedOut, closeAllCalls>>

\* lines 203-207: publisher.disconnect(), and stop() returns
StopDisconnect ==
    /\ AtMain("stop", "disconnect")
    /\ stack' = Pop
    /\ UNCHANGED fnVars
    /\ UNCHANGED <<cfgVars, unitVars, regVars, bridgeRunning, signals, exited,
                   stopAsked, joinTimedOut, closeAllCalls>>

UnitStep(u) ==
    \/ RunStart(u)
    \/ RunLoop(u)
    \/ GetClientEnter(u)
    \/ GetClientCheck(u)
    \/ GetClientConnectFail(u)
    \/ GetClientConnectOk(u)
    \/ GetClientReturn(u)
    \/ PollLockLookup(u)
    \/ PollLockAcquire(u)
    \/ PollRead(u)
    \/ PollPace(u)
    \/ RunCheckData(u)
    \/ PublishReturn(u)
    \/ PublishRaise(u)
    \/ RunSleep(u)
    \/ RunCooldown(u)

MainStep ==
    \/ StartThread
    \/ SetRunning
    \/ MainLoopExit
    \/ RunReturn
    \/ StopCheck
    \/ StopClear
    \/ StopThreads
    \/ StopJoin
    \/ StopJoinTimeout
    \/ CloseAllBegin
    \/ CloseAllNext
    \/ CloseAllRaise
    \/ CloseAllClear
    \/ StopDisconnect

Next ==
    \/ \E u \in Units : UnitStep(u)
    \/ MainStep
    \/ Signal

Spec == Init /\ [][Next]_vars

\* ---- sweeps ----------------------------------------------------------------
\* u holds a key lock: it is inside poll_device's with block
InSweep(u) == pc[u] \in {"read", "pace"}

\* u has made the first register read of its sweep and not yet the last
MidSweep(u) ==
    /\ InSweep(u)
    /\ Len(attempted[u]) >= 1
    /\ Len(attempted[u]) < nregs[u]

\* this step is a register read of u
ReadsNow(u) == Len(attempted'[u]) = Len(attempted[u]) + 1

\* C1: for two devices with the same transport key, no register read of one
\* happens between the first and the last register read of a sweep of the
\* other.
C1_SweepAtomicity ==
    [][\A a, b \in Units :
          (a # b /\ keyOf[a] = keyOf[b] /\ MidSweep(a)) => ~ReadsNow(b)]_vars

\* ---- scheduling ------------------------------------------------------------
\* Every live thread keeps being scheduled: each polling thread and the main
\* thread take their next step when one stays possible (a sleep ends, a join
\* returns or times out).  Signals are the environment's and are not forced.
Fairness ==
    /\ \A u \in Units : WF_vars(UnitStep(u))
    /\ WF_vars(MainStep)

FairSpec == Init /\ [][Next]_vars /\ Fairness

\* a polling thread that has left its loop, or died with the process
UnitGone(u) == pc[u] = "done" \/ exited

\* C2: once a shutdown signal has been delivered (at any moment after run()
\* began), eventually every polling thread has been asked to stop and has
\* exited and close_all() has been invoked.
C2_SignalShutsDown ==
    (signals > 0) ~> (/\ \A u \in Units : u \in stopAsked /\ UnitGone(u)
                      /\ closeAllCalls > 0)

\* ---- shutdown and in-flight sweeps -----------------------------------------
\* u is inside a sweep that uses connection c
SweepOn(u, c) == InSweep(u) /\ client[u] = c

\* this step is close_all closing connection c
ClosesNow(c) == c \notin closed /\ c \in closed'

\* C3 (as claimed): close_all() never closes a connection while a polling
\* thread is inside a sweep on that connection.
C3_NeverClosedMidSweep ==
    [][\A c \in Conns, u \in Units : ClosesNow(c) => ~SweepOn(u, c)]_vars

\* C3 (amended): close_all() closes a connection under an in-flight sweep
\* only when the bounded join on that sweep's thread has timed out; the
\* connection of a thread whose join was not given up is never closed
\* mid-sweep.
C3_ClosedMidSweepOnlyAfterJoinTimeout ==
    [][\A c \in Conns, u \in Units :
          (ClosesNow(c) /\ SweepOn(u, c)) => u \in joinTimedOut]_vars

C3_Witness ==
    \E u \in Units : InSweep(u) /\ client[u] \in closed /\ u \in joinTimedOut

\* ---- what run() does with a Reading ----------------------------------------
\* C4: in every cycle, whatever the Reading's status, the thread has handed
\* the Reading to publish before it sleeps the poll interval.
C4_EveryReadingPublished ==
    \A u \in Units : pc[u] = "sleep" => lastPub[u] \in {"sent", "dropped"}

\* ---- faults inside the try block -------------------------------------------
\* this step raises out of poll_device (the KeyError of get_client's lookup)
\* or out of publish, in thread u
FaultStep(u) ==
    \/ pc[u] = "gc_ret" /\ ~HasClient(keyOf[u]) /\ pc'[u] # "gc_ret"
    \/ pc[u] = "publish" /\ lastPub'[u] = "raised"

UnitUntouched(v) ==
    /\ pc'[v] = pc[v]
    /\ running'[v] = running[v]
    /\ client'[v] = client[v]
    /\ myLock'[v] = myLock[v]
    /\ idx'[v] = idx[v]
    /\ data'[v] = data[v]
    /\ reading'[v] = reading[v]
    /\ lastPub'[v] = lastPub[v]

\* C5: an exception raised by poll_device or publish in one thread takes that
\* thread to the cooldown sleep (not to its end, not to the poll-interval
\* sleep); after the cooldown the thread is back at the top of its loop, from
\* where a thread still running starts another poll; and the fault changes
\* nothing in any other thread.
C5_FaultIsolation ==
    [][\A u \in Units :
          /\ FaultStep(u) =>
                /\ pc'[u] = "cooldown"
                /\ \A v \in Units \ {u} : UnitUntouched(v)
          /\ (pc[u] = "cooldown" /\ pc'[u] # "cooldown") => pc'[u] = "loop"
          /\ (pc[u] = "loop" /\ running[u] /\ pc'[u] # "loop")
                => pc'[u] = "poll"]_vars

C5_Witness ==
    \E u, v \in Units :
        /\ u # v
        /\ pc[u] = "cooldown"
        /\ lastPub[u] = "raised"
        /\ InSweep(v)

\* ---- the registry ----------------------------------------------------------
OpenedForKey(k) == {c \in Conns : openedFor[c] = k}

\* C6: for every transport key at most one connection is ever opened and
\* registered, with one lock, and all threads of that key that obtained a
\* connection and a lock obtained the same ones.
C6_OneConnectionPerKey ==
    /\ \A k \in Keys : Cardinality(OpenedForKey(k)) <= 1
    /\ \A u, v \in Units :
          keyOf[u] = keyOf[v] =>
             /\ (client[u] # 0 /\ client[v] # 0) => client[u] = client[v]
             /\ (myLock[u] # 0 /\ myLock[v] # 0) => myLock[u] = myLock[v]

\* this step of thread u reads or writes self.clients or self.locks
MapAccessStep(u) ==
    /\ pc[u] \in {"gc_check", "gc_connect", "gc_ret", "pd_lookup"}
    /\ pc'[u] # pc[u]

\* the main thread as a holder of client_create_lock (no code path makes it
\* one: stop and close_all never acquire that lock)
MainThread == NumDevices + 1

\* this step of the main thread iterates or clears self.clients
CloseAllStep ==
    /\ stack # <<>>
    /\ Top.pc \in {"ca_iter", "ca_clear"}
    /\ stack' # stack

\* C7: every step that reads or writes the registry's maps is taken by a
\* thread holding client_create_lock (so close_all, run by the main thread,
\* never touches them while a polling thread holds the lock), and
\* get_client's final lookup never fails.
C7_MapsOnlyUnderCreateLock ==
    [][/\ \A u \in Units :
             MapAccessStep(u) => (createLock = u /\ ~FaultStep(u))
       /\ CloseAllStep => createLock = MainThread]_vars

\* ---- locks and sleeps ------------------------------------------------------
HoldsKeyLock(u) == \E c \in Conns : lockHolder[c] = u

\* C8 (as claimed): no thread sleeps (pacing delay, poll-interval sleep or
\* cooldown) while it holds a transport key lock.
C8_NoSleepUnderKeyLock ==
    \A u \in Units :
        pc[u] \in {"pace", "sleep", "cooldown"} => ~HoldsKeyLock(u)

\* C8 (amended): no thread is in the poll-interval sleep or in the cooldown
\* while it holds a transport key lock; the pacing delay is taken inside the
\* sweep, with the key lock held.
C8_NoCycleSleepUnderKeyLock ==
    \A u \in Units :
        /\ pc[u] \in {"sleep", "cooldown"} => ~HoldsKeyLock(u)
        /\ pc[u] = "pace" => lockHolder[myLock[u]] = u

C8_Witness ==
    \E u \in Units : pc[u] = "sleep" /\ reading[u] = "connected"

\* C9: a sweep over n registers takes the pacing delay n - 1 times, never
\* after the read of the last register.
C9_PacingOnlyBetweenReads ==
    \A u \in Units :
        /\ (pc[u] = "pace") => Len(attempted[u]) < nregs[u]
        /\ (pc[u] = "got_reading" /\ reading[u] # "disconnected")
              => paces[u] = nregs[u] - 1

\* C10: a finished sweep has called read_register on every register exactly
\* once, in declaration order, whatever the outcomes were, and its data holds
\* exactly the tags of the registers whose read and decode succeeded; during
\* the sweep the same holds of the registers read so far.
C10_SweepReadsEveryRegister ==
    \A u \in Units :
        /\ attempted[u] = [j \in 1..Len(attempted[u]) |-> j]
        /\ Len(attempted[u]) <= nregs[u]
        /\ data[u] = succeeded[u]
        /\ (pc[u] = "got_reading" /\ reading[u] # "disconnected")
              => /\ Len(attempted[u]) = nregs[u]
                 /\ reading[u] = (IF succeeded[u] # {} THEN "connected"
                                  ELSE "error")

C10_Witness ==
    \E u \in Units :
        /\ pc[u] = "got_reading"
        /\ nregs[u] = 2
        /\ attempted[u] = <<1, 2>>
        /\ data[u] = {2}

\* ---- the Reading poll_device returns ---------------------------------------
\* C11: the Reading poll_device returns is 'disconnected' exactly when
\* get_client returned no connection, and then it has no values, no register
\* was read and no key lock was taken; otherwise it is 'connected' exactly
\* when its values are non-empty and 'error' exactly when no register decoded.
C11_ReadingStatus ==
    \A u \in Units :
        pc[u] = "got_reading" =>
            /\ reading[u] \in {"disconnected", "connected", "error"}
            /\ (reading[u] = "disconnected") <=> (client[u] = 0)
            /\ reading[u] = "disconnected" =>
                  /\ data[u] = {}
                  /\ attempted[u] = <<>>
                  /\ myLock[u] = 0
                  /\ ~HoldsKeyLock(u)
            /\ reading[u] # "disconnected" =>
                  /\ (reading[u] = "connected") <=> (data[u] # {})
                  /\ (reading[u] = "error") <=> (succeeded[u] = {})

C11_Witness ==
    \E u, v \in Units :
        /\ pc[u] = "got_reading" /\ reading[u] = "disconnected"
        /\ pc[v] = "got_reading" /\ reading[v] = "error"

\* ---- opening a connection --------------------------------------------------
\* this step of thread u is the end of a connect() call of get_client
OpenAttempt(u) == pc[u] = "gc_connect" /\ pc'[u] # "gc_connect"

\* ... and connect() returned False
OpenFails(u) == OpenAttempt(u) /\ pc'[u] = "got_reading"

\* C12: a failed open adds nothing to clients or locks and the caller gets
\* the failure; a get_client that finds no entry for its key goes on to open
\* one; and once an open has succeeded for a key no open is attempted for
\* that key again.
C12_FailedOpenNotCachedOpenedOnce ==
    [][\A u \in Units :
          /\ OpenFails(u) =>
                /\ clients' = clients
                /\ locks' = locks
                /\ reading'[u] = "disconnected"
          /\ (pc[u] = "gc_check" /\ ~HasClient(keyOf[u]) /\ pc'[u] # pc[u])
                => pc'[u] = "gc_connect"
          /\ OpenAttempt(u) => OpenedForKey(keyOf[u]) = {}]_vars

\* ---- stopping a polling thread ---------------------------------------------
\* C13: a thread whose stop() has been called, at any moment after start(),
\* finds running False at the top of its next cycle, and eventually has left
\* its loop (its poll and its sleeps end: the scheduling of FairSpec).
C13_StopObserved ==
    /\ [](\A u \in Units : (u \in stopAsked /\ pc[u] = "loop") => ~running[u])
    /\ \A u \in Units : (u \in stopAsked) ~> UnitGone(u)

\* ---- close_all -------------------------------------------------------------
\* this step ends a close_all call: clear() has run, or the call has raised
CloseAllEnds ==
    /\ CloseAllStep
    /\ (stack' = <<>> \/ stack'[Len(stack')].pc = "disconnect")

\* this step of close_all closes a connection closed before
ClosesAgain ==
    /\ CloseAllStep
    /\ Top.pc = "ca_iter"
    /\ Len(stack') = Len(stack)
    /\ Top.i < Top.size
    /\ Len(clients) = Top.size
    /\ clients[Top.i + 1].conn \in closed

\* C14: when close_all ends the cache is empty and every connection that was
\* in it has been closed; a close_all over an empty cache closes nothing and
\* leaves the registry as it is; and no connection is closed twice, however
\* the stop() of the signal handler and the stop() of run() interleave.
C14_CloseAllClosesEachOnce ==
    [][/\ CloseAllEnds =>
             /\ clients' = <<>>
             /\ \A j \in 1..Len(clients) : clients[j].conn \in closed'
       /\ (CloseAllStep /\ clients = <<>>) =>
             /\ closed' = closed
             /\ clients' = clients
             /\ locks' = locks
       /\ ~ClosesAgain]_vars

\* ---- client_create_lock ----------------------------------------------------
\* C15: client_create_lock is held only in get_client's check-and-create
\* step (never while reading registers, sleeping or waiting for a key lock);
\* a thread waiting for it holds no key lock; a thread waiting for a key lock
\* waits for a holder of its own key; and a thread holding either lock always
\* has a next step, so no cycle of waiting threads is reachable.
C15_CreateLockOnlyInGetClient ==
    \A u \in Units :
        /\ createLock = u => pc[u] \in {"gc_check", "gc_connect"}
        /\ pc[u] = "poll" => ~HoldsKeyLock(u)
        /\ myLock[u] # 0 => openedFor[myLock[u]] = keyOf[u]
        /\ \A v \in Units :
              (pc[u] = "pd_acquire" /\ lockHolder[myLock[u]] = v)
                 => keyOf[v] = keyOf[u]
        /\ (~exited /\ (createLock = u \/ HoldsKeyLock(u)))
              => ENABLED UnitStep(u)

C15_Witness ==
    \E u, v \in Units :
        /\ createLock = u
        /\ InSweep(v)
        /\ keyOf[u] # keyOf[v]

\* ---- MQTTPublisher.publish, one call ---------------------------------------
Tags == 1..MaxTags

\* the Readings poll_device builds: 'connected' with data, 'error' or
\* 'disconnected' without
Readings ==
    {[status |-> s, data |-> d] :
        s \in {"connected", "error", "disconnected"}, d \in SUBSET Tags}

RECURSIVE InOrder(_)
\* data.items(): the tags in insertion order, which is declaration order
InOrder(S) ==
    IF S = {} THEN <<>>
    ELSE LET m == CHOOSE x \in S : \A y \in S : x <= y
         IN <<m>> \o InOrder(S \ {m})

\* one client.publish call: the topic's last segment and the payload's
\* timestamp
Message(kind, tag, ts) == [kind |-> kind, tag |-> tag, timestamp |-> ts]

PubInit ==
    /\ BridgeInit
    /\ keyOf = [u \in Units |-> 1]
    /\ nregs = [u \in Units |-> 1]
    /\ connected \in BOOLEAN
    /\ now = 0
    /\ deviceData \in {r \in Readings :
                         (r.status = "connected") <=> (r.data # {})}
    /\ pubPc = "call"
    /\ timestamp = NoTime
    /\ rc = "none"
    /\ published = <<>>
    /\ pubRet = "none"
    /\ DecoderIdle
    /\ LoaderIdle

\* lines 92-100: not connected, return False; else the one timestamp is taken
PubEnter ==
    /\ pubPc = "call"
    /\ IF connected
       THEN /\ timestamp' = now
            /\ pubPc' = "status"
            /\ pubRet' = pubRet
       ELSE /\ timestamp' = timestamp
            /\ pubPc' = "returned"
            /\ pubRet' = "False"
    /\ UNCHANGED <<connected, now, deviceData, rc, published, pubOthers>>

\* lines 102-111: the status message; without data, return False
PubStatus ==
    /\ pubPc = "status"
    /\ published' = Append(published, Message("status", 0, timestamp))
    /\ IF deviceData.data = {}
       THEN /\ pubPc' = "returned"
            /\ pubRet' = "False"
       ELSE /\ pubPc' = "telemetry"
            /\ pubRet' = pubRet
    /\ UNCHANGED <<connected, now, deviceData, timestamp, rc, pubOthers>>

\* lines 113-129: the telemetry message; when the client reports a failure,
\* return False
PubTelemetry ==
    /\ pubPc = "telemetry"
    /\ published' = Append(published, Message("telemetry", 0, timestamp))
    /\ \E r \in {"success", "error"} :
          /\ rc' = r
          /\ IF r = "success"
             THEN /\ pubPc' = "tags"
                  /\ pubRet' = pubRet
             ELSE /\ pubPc' = "returned"
                  /\ pubRet' = "False"
    /\ UNCHANGED <<connected, now, deviceData, timestamp, pubOthers>>

\* the tags the loop of lines 132-138 has still to publish
TagsLeft == SubSeq(InOrder(deviceData.data), Len(published) - 1,
                   Cardinality(deviceData.data))

\* every per-tag message stamped with the clock at the moment it is sent
PubTagStampNow ==
    /\ pubPc = "tags"
    /\ TagsLeft # <<>>
    /\ published' = Append(published, Message("tag", Head(TagsLeft), now))
    /\ UNCHANGED <<connected, now, deviceData, pubPc, timestamp, rc, pubRet,
                   pubOthers>>

\* lines 132-138: the message of the next tag
PubTag ==
    /\ pubPc = "tags"
    /\ TagsLeft # <<>>
    /\ published' = Append(published,
                           Message("tag", Head(TagsLeft), timestamp))
    /\ UNCHANGED <<connected, now, deviceData, pubPc, timestamp, rc, pubRet,
                   pubOthers>>

\* line 140: return True
PubDone ==
    /\ pubPc = "tags"
    /\ TagsLeft = <<>>
    /\ pubPc' = "returned"
    /\ pubRet' = "True"
    /\ UNCHANGED <<connected, now, deviceData, timestamp, rc, published,
                   pubOthers>>

\* time passes while publish runs
ClockTick ==
    /\ pubPc \in {"call", "status", "telemetry", "tags"}
    /\ now < MaxClock
    /\ now' = now + 1
    /\ UNCHANGED <<connected, deviceData, pubPc, timestamp, rc, published,
                   pubRet, pubOthers>>

PubNext ==
    \/ PubEnter
    \/ PubStatus
    \/ PubTelemetry
    \/ PubTag
    \/ PubDone
    \/ ClockTick

PubSpec == PubInit /\ [][PubNext]_vars

\* the per-tag messages of the data, in order
TagMessages(ts) ==
    [j \in 1..Cardinality(deviceData.data) |->
        Message("tag", InOrder(deviceData.data)[j], ts)]

\* C16 (as claimed): a publish call that found the sink connected has made,
\* when it returns, exactly these client.publish calls in this order: the
\* status message, then the telemetry message if and only if data is
\* non-empty, then one message per tag of data; all with one timestamp.
C16_StatusTelemetryThenEveryTag ==
    (pubPc = "returned" /\ connected) =>
        published = <<Message("status", 0, timestamp)>>
                    \o (IF deviceData.data = {} THEN <<>>
                        ELSE <<Message("telemetry", 0, timestamp)>>
                             \o TagMessages(timestamp))

\* C16 (amended): ... the status message, then the telemetry message if and
\* only if data is non-empty, then one message per tag of data if the client
\* reported the telemetry publish as successful and none if it reported a
\* failure (publish then returns False); all with the one timestamp taken at
\* the start of the call.
C16_TagsOnlyAfterTelemetrySuccess ==
    (pubPc = "returned" /\ connected) =>
        /\ timestamp # NoTime
        /\ published = <<Message("status", 0, timestamp)>>
                       \o (IF deviceData.data = {} THEN <<>>
                           ELSE <<Message("telemetry", 0, timestamp)>>
                                \o (IF rc = "success"
                                    THEN TagMessages(timestamp)
                                    ELSE <<>>))
        /\ pubRet = (IF deviceData.data # {} /\ rc = "success"
                     THEN "True" ELSE "False")

C16_Witness ==
    /\ pubPc = "returned"
    /\ connected
    /\ Cardinality(deviceData.data) = 2
    /\ rc = "success"
    /\ Len(published) = 4
    /\ now > timestamp

\* ---- Python ints beyond 32 bits -------------------------------------------
\* a register word is 16 bits wide
WordBits == 16

Base == 2^WordBits

\* A natural number is the sequence of its digits in base 2^16, most
\* significant first and without a leading zero (<<>> is 0), so that 64-bit
\* registers and their scaled values are computed exactly.
Norm(a) ==
    IF \A j \in 1..Len(a) : a[j] = 0 THEN <<>>
    ELSE SubSeq(a, CHOOSE k \in 1..Len(a) :
                      a[k] # 0 /\ \A j \in 1..(k - 1) : a[j] = 0,
                Len(a))

\* a small n
Digits(n) == IF n = 0 THEN <<>>
          ELSE IF n < Base THEN <<n>> ELSE <<n \div Base, n % Base>>

Zeros(k) == [j \in 1..k |-> 0]

\* a as a pattern of n words
Pad(a, n) == Zeros(n - Len(a)) \o a

RECURSIVE OrWord(_, _)
\* x | y of two words
OrWord(x, y) ==
    IF x = 0 THEN y
    ELSE IF y = 0 THEN x
    ELSE (IF x % 2 = 1 \/ y % 2 = 1 THEN 1 ELSE 0)
         + 2 * OrWord(x \div 2, y \div 2)

\* a | b
BitOr(a, b) ==
    LET n == IF Len(a) > Len(b) THEN Len(a) ELSE Len(b)
    IN Norm([j \in 1..n |-> OrWord(Pad(a, n)[j], Pad(b, n)[j])])

RECURSIVE MulCarry(_, _, _)
\* a * m + carry for m up to 2^15
MulCarry(a, m, carry) ==
    IF a = <<>> THEN Digits(carry)
    ELSE MulCarry(SubSeq(a, 1, Len(a) - 1), m,
                  (a[Len(a)] * m + carry) \div Base)
         \o <<(a[Len(a)] * m + carry) % Base>>

Times(a, m) == Norm(MulCarry(a, m, 0))

Inc(a) == Norm(MulCarry(a, 1, 1))

RECURSIVE DivStep(_, _, _)
\* long division of a by d, d up to 2^15: the digits of the quotient
\* followed by the remainder
DivStep(a, d, rem) ==
    IF a = <<>> THEN <<rem>>
    ELSE <<(rem * Base + Head(a)) \div d>>
         \o DivStep(Tail(a), d, (rem * Base + Head(a)) % d)

Quotient(a, d) ==
    LET x == DivStep(a, d, 0) IN Norm(SubSeq(x, 1, Len(x) - 1))

Remainder(a, d) == LET x == DivStep(a, d, 0) IN x[Len(x)]

\* a << k
Shl(a, k) ==
    IF a = <<>> THEN <<>>
    ELSE Times(a, 2^(k % WordBits)) \o Zeros(k \div WordBits)

\* a >> k
Shr(a, k) ==
    IF k \div WordBits >= Len(a) THEN <<>>
    ELSE Quotient(SubSeq(a, 1, Len(a) - k \div WordBits), 2^(k % WordBits))

\* a % 2^k # 0
LowBitsSet(a, k) ==
    \/ \E j \in 1..Len(a) : j > Len(a) - k \div WordBits /\ a[j] # 0
    \/ /\ k \div WordBits < Len(a)
       /\ Remainder(SubSeq(a, 1, Len(a) - k \div WordBits),
                    2^(k % WordBits)) # 0

\* a.bit_length()
BitLen(a) ==
    IF a = <<>> THEN 0
    ELSE WordBits * (Len(a) - 1)
         + (CHOOSE k \in 1..WordBits : 2^(k - 1) <= a[1] /\ a[1] < 2^k)

IsOdd(a) == a # <<>> /\ a[Len(a)] % 2 = 1

\* the number of zero bits a ends with (a # 0)
TrailingZeros(a) ==
    LET last == CHOOSE k \in 1..Len(a) :
                    a[k] # 0 /\ \A j \in (k + 1)..Len(a) : a[j] = 0
    IN WordBits * (Len(a) - last)
       + (CHOOSE k \in 0..(WordBits - 1) :
              a[last] % 2^k = 0 /\ (a[last] \div 2^k) % 2 = 1)

Reverse(s) == [j \in 1..Len(s) |-> s[Len(s) + 1 - j]]

\* ---- Python floats --------------------------------------------------------
\* the significand of a float has 53 bits; every operation rounds its exact
\* result to that many, ties to even
Precision == 53

\* the float man * 2^exp, man made odd
Float(neg, man, exp) ==
    IF man = <<>> THEN PyValue("float", neg, <<>>, 0)
    ELSE PyValue("float", neg, Shr(man, TrailingZeros(man)),
                 exp + TrailingZeros(man))

\* a * 2^exp, plus a fraction of its last place when sticky, rounded
RoundToDouble(neg, a, exp, sticky) ==
    IF BitLen(a) <= Precision THEN Float(neg, a, exp)
    ELSE LET drop == BitLen(a) - Precision
             top == Shr(a, drop)
             up == /\ IsOdd(Shr(a, drop - 1))
                   /\ (\/ sticky
                       \/ LowBitsSet(a, drop - 1)
                       \/ IsOdd(top))
         IN Float(neg, IF up THEN Inc(top) ELSE top, exp + drop)

\* float(v) of an int
ToFloat(v) == RoundToDouble(v.neg, v.man, 0, FALSE)

\* f * m
FMul(f, m) == RoundToDouble(f.neg, Times(f.man, m), f.exp, FALSE)

\* bits of the quotient computed beyond the significand before rounding
GuardBits == 4 * WordBits

\* f / d
FDiv(f, d) ==
    RoundToDouble(f.neg, Quotient(Shl(f.man, GuardBits), d),
                  f.exp - GuardBits, Remainder(Shl(f.man, GuardBits), d) # 0)

\* result == int(result)
Whole(f) == f.man = <<>> \/ f.exp >= 0

\* int(result)
IntOf(f) == PyValue("int", f.neg, Shl(f.man, f.exp), 0)

\* ---- ModbusRegister -------------------------------------------------------
\* lines 21-23
NeedsScaling(reg) == reg.multiplier # 1 \/ reg.divider # 1

\* lines 25-27
IsIntegerType(reg) ==
    reg.data_type \in {"uint16", "int16", "uint32", "int32", "uint64",
                       "int64"}

\* an exception on its way out of the function
Raise == PyValue("raise", FALSE, <<>>, 0)

\* lines 29-39: float arithmetic on an int (or on the float of a float type,
\* whose scaled value is left as the pattern it was computed from);
\* division by 0.0 raises
ApplyScaling(reg, v) ==
    IF ~NeedsScaling(reg) THEN v
    ELSE IF reg.divider = 0 THEN Raise
    ELSE IF v.kind # "int" THEN PyValue("scaled", v.neg, v.man, 0)
    ELSE LET result == FDiv(FMul(ToFloat(v), reg.multiplier), reg.divider)
         IN IF IsIntegerType(reg) /\ Whole(result) THEN IntOf(result)
            ELSE result

\* ---- ConfigParser._parse_register ------------------------------------------
\* lines 69-79
TYPE_MAPPING ==
    [t \in {"16uint", "16int", "32uint", "32int", "32float", "float",
            "double", "64int", "64uint"} |->
        CASE t = "16uint" -> <<"uint16", 1>>
          [] t = "16int" -> <<"int16", 1>>
          [] t = "32uint" -> <<"uint32", 2>>
          [] t = "32int" -> <<"int32", 2>>
          [] t = "32float" -> <<"float32", 2>>
          [] t = "float" -> <<"float32", 2>>
          [] t = "double" -> <<"float64", 4>>
          [] t = "64int" -> <<"int64", 4>>
          [] t = "64uint" -> <<"uint64", 4>>]

\* the 'objectsCount' key is not in the entry
NoKey == 0

\* lines 135-138: an unknown type tag is taken as a 16-bit unsigned
MappedType(cfg) ==
    IF cfg.type \in DOMAIN TYPE_MAPPING THEN TYPE_MAPPING[cfg.type]
    ELSE <<"uint16", 1>>

\* lines 133-150: the register of an entry; an entry without 'tag' raises
\* KeyError, which is caught, logged and answered with None
ParseRegister(cfg) ==
    IF ~cfg.hasTag THEN None
    ELSE [kind |-> "register",
          data_type |-> MappedType(cfg)[1],
          count |-> IF cfg.objectsCount = NoKey THEN MappedType(cfg)[2]
                    ELSE cfg.objectsCount,
          multiplier |-> cfg.multiplier,
          divider |-> cfg.divider]

\* ---- ModbusPoller._decode_registers ----------------------------------------
\* struct.pack(order + format, n): the bytes of the pattern of n in `words`
\* words, most significant first for '>' and least significant first for '<'
Pack(order, words, n) ==
    LET bytes == [j \in 1..(2 * words) |->
                     IF j % 2 = 1 THEN Pad(n, words)[(j + 1) \div 2] \div 256
                     ELSE Pad(n, words)[j \div 2] % 256]
    IN IF order = ">" THEN bytes ELSE Reverse(bytes)

\* struct.unpack(order + format, bytes): the pattern the bytes stand for
Unpack(order, bytes) ==
    LET be == IF order = ">" THEN bytes ELSE Reverse(bytes)
    IN [j \in 1..(Len(bytes) \div 2) |-> 256 * be[2 * j - 1] + be[2 * j]]

\* ... read as unsigned
Unsigned(pattern) == PyValue("int", FALSE, Norm(pattern), 0)

\* ... read as a two's complement integer
Signed(pattern) ==
    IF pattern[1] >= Base \div 2
    THEN PyValue("int", TRUE,
                 Inc([j \in 1..Len(pattern) |-> Base - 1 - pattern[j]]), 0)
    ELSE PyValue("int", FALSE, Norm(pattern), 0)

\* ... read as an IEEE float, left as its pattern
Ieee(pattern) == PyValue("ieee", FALSE, pattern, 0)

\* the words taken in reception order whatever word_order says
AssembleAsReceived(regs, n, wo) ==
    IF n = 2
    THEN BitOr(Shl(Digits(regs[1]), WordBits), Digits(regs[2]))
    ELSE BitOr(BitOr(Shl(Digits(regs[1]), 3 * WordBits),
                     Shl(Digits(regs[2]), 2 * WordBits)),
               BitOr(Shl(Digits(regs[3]), WordBits), Digits(regs[4])))

\* lines 120-123 and 137-140: raw, from 2 or from 4 words
Assemble(regs, n, wo) ==
    IF n = 2
    THEN IF wo = "BIG"
         THEN BitOr(Shl(Digits(regs[1]), WordBits), Digits(regs[2]))
         ELSE BitOr(Shl(Digits(regs[2]), WordBits), Digits(regs[1]))
    ELSE IF wo = "BIG"
         THEN BitOr(BitOr(Shl(Digits(regs[1]), 3 * WordBits),
                          Shl(Digits(regs[2]), 2 * WordBits)),
                    BitOr(Shl(Digits(regs[3]), WordBits), Digits(regs[4])))
         ELSE BitOr(BitOr(Shl(Digits(regs[4]), 3 * WordBits),
                          Shl(Digits(regs[3]), 2 * WordBits)),
                    BitOr(Shl(Digits(regs[2]), WordBits), Digits(regs[1])))

\* line 106
StructOrder(bo) == IF bo = "BIG" THEN ">" ELSE "<"

\* lines 110-150: the local `value` of a register of 1, 2 or 4 words
LocalValue(regs, reg, bo, wo) ==
    LET order == StructOrder(bo)
        raw == IF reg.count = 1 THEN Digits(regs[1])
               ELSE Assemble(regs, reg.count, wo)
        typed == <<reg.count, reg.data_type>>
    IN IF typed \in {<<1, "int16">>, <<2, "int32">>, <<4, "int64">>}
       THEN Signed(Unpack(order, Pack(order, reg.count, raw)))
       ELSE IF typed \in {<<2, "float32">>, <<4, "float64">>}
       THEN Ieee(Unpack(order, Pack(order, reg.count, raw)))
       ELSE Unsigned(raw)

\* the missing words taken as 0, without the guard of lines 101-103
DecodePresentWords(regs, reg, bo, wo) ==
    IF reg.count \notin {1, 2, 4} THEN None
    ELSE IF ApplyScaling(reg, LocalValue(Pad(regs, reg.count), reg, bo, wo))
            = Raise
         THEN None
         ELSE ApplyScaling(reg, LocalValue(Pad(regs, reg.count), reg, bo, wo))

\* lines 99-160: None for too few words, for a count other than 1, 2 and 4
\* and for any exception; else the scaled value
DecodeRegisters(regs, reg, bo, wo) ==
    IF Len(regs) < reg.count THEN None
    ELSE IF reg.count \notin {1, 2, 4} THEN None
    ELSE IF ApplyScaling(reg, LocalValue(regs, reg, bo, wo)) = Raise
         THEN None
         ELSE ApplyScaling(reg, LocalValue(regs, reg, bo, wo))

\* ---- one register, from its entry to its value ----------------------------
ConfigTypes == DOMAIN TYPE_MAPPING \cup {"unknown"}

\* the entries looked at: every type tag, with and without an objectsCount,
\* small integer multipliers and dividers; and one entry without 'tag' for
\* every type tag
RegConfigs ==
    {c \in [type : ConfigTypes, hasTag : BOOLEAN,
            objectsCount : {NoKey, 1, 2, 3, 4},
            multiplier : 1..MaxMultiplier, divider : 0..MaxDivider] :
        ~c.hasTag => (/\ c.objectsCount = NoKey
                      /\ c.multiplier = 1
                      /\ c.divider = 1)}

Orders == {"BIG", "LITTLE"}

\* register words a device answers with
Words == {0, 1, 100, 65535}

DecInit ==
    /\ BridgeInit
    /\ keyOf = [u \in Units |-> 1]
    /\ nregs = [u \in Units |-> 1]
    /\ PublisherIdle
    /\ regConfig \in RegConfigs
    /\ byteOrder \in Orders
    /\ wordOrder \in Orders
    /\ register = None
    /\ registers = <<>>
    /\ value = None
    /\ decoded = None
    /\ tagData = {}
    /\ decPc = "config"
    /\ LoaderIdle

\* config_parser.py lines 95-105: the entry is parsed and, unless None came
\* back, appended to the device's registers
Parse ==
    /\ decPc = "config"
    /\ register' = ParseRegister(regConfig)
    /\ decPc' = IF ParseRegister(regConfig) = None THEN "rejected"
                ELSE "parsed"
    /\ UNCHANGED <<regConfig, byteOrder, wordOrder, registers, value,
                   decoded, tagData, decOthers>>

\* modbus_poller.py lines 64-71: the device answers a read of
\* register.count words with that many words, or with one fewer
Read ==
    /\ decPc = "parsed"
    /\ \E n \in {register.count - 1, register.count} :
          registers' \in [1..n -> Words]
    /\ decPc' = "read"
    /\ UNCHANGED <<regConfig, register, byteOrder, wordOrder, value,
                   decoded, tagData, decOthers>>

\* modbus_poller.py line 87: the words are decoded
Decode ==
    /\ decPc = "read"
    /\ value' = IF Len(registers) < register.count
                   \/ register.count \notin {1, 2, 4}
                THEN None
                ELSE LocalValue(registers, register, byteOrder, wordOrder)
    /\ decoded' = DecodeRegisters(registers, register, byteOrder, wordOrder)
    /\ decPc' = "decoded"
    /\ UNCHANGED <<regConfig, register, byteOrder, wordOrder, registers,
                   tagData, decOthers>>

\* modbus_poller.py lines 180-183: a value other than None is stored under
\* the register's tag
Collect ==
    /\ decPc = "decoded"
    /\ tagData' = IF decoded # None THEN {decoded} ELSE tagData
    /\ decPc' = "collected"
    /\ UNCHANGED <<regConfig, register, byteOrder, wordOrder, registers,
                   value, decoded, decOthers>>

DecNext ==
    \/ Parse
    \/ Read
    \/ Decode
    \/ Collect

DecSpec == DecInit /\ [][DecNext]_vars

\* ---- claims about one register --------------------------------------------
\* the words a value of the type takes
Width(dataType) ==
    CASE dataType \in {"uint16", "int16"} -> 1
      [] dataType \in {"uint32", "int32", "float32"} -> 2
      [] dataType \in {"uint64", "int64", "float64"} -> 4

\* the entry gives an objectsCount other than the width of its type
OverrideDisagrees(cfg) ==
    /\ cfg.hasTag
    /\ cfg.objectsCount # NoKey
    /\ cfg.objectsCount # Width(MappedType(cfg)[1])

\* C17: every register that is read and decoded has a count equal to the
\* width of its data type, and an entry whose objectsCount disagrees with
\* its type is rejected when the configuration is loaded and never decoded
\* to a value.
C17_CountMatchesTypeWidth ==
    /\ decPc = "decoded" => register.count = Width(register.data_type)
    /\ OverrideDisagrees(regConfig)
         => decPc \in {"config", "rejected"} /\ decoded = None

\* the register takes 2 or 4 words, is unsigned and is not scaled, and the
\* device has answered with all its words
UnscaledUnsigned ==
    /\ decPc = "decoded"
    /\ register.count \in {2, 4}
    /\ register.data_type \in {"uint16", "uint32", "uint64"}
    /\ ~NeedsScaling(register)
    /\ Len(registers) = register.count

\* C19: an unscaled unsigned register of 2 or 4 words decodes, with BIG word
\* order, to the integer whose base-2^16 digits are the words as received,
\* first word most significant, and with LITTLE word order to the integer
\* whose digits are the words in reversed positions; so <<1, 0>> decodes to
\* 65536 with BIG and to 1 with LITTLE.
C19_WordOrderPlacesWords ==
    UnscaledUnsigned =>
        /\ decoded.kind = "int" /\ ~decoded.neg /\ decoded.exp = 0
        /\ wordOrder = "BIG" => decoded.man = Norm(registers)
        /\ wordOrder = "LITTLE" => decoded.man = Norm(Reverse(registers))
        /\ (registers = <<1, 0>> /\ wordOrder = "BIG")
             => decoded.man = <<1, 0>>
        /\ (registers = <<1, 0>> /\ wordOrder = "LITTLE")
             => decoded.man = <<1>>

C19_Witness ==
    /\ UnscaledUnsigned
    /\ register.data_type = "uint32"
    /\ registers = <<1, 0>>
    /\ wordOrder = "LITTLE"
    /\ decoded = PyValue("int", FALSE, <<1>>, 0)

\* an integer register with a non-zero divider whose words were decoded to
\* an integer before scaling
IntegerScaled ==
    /\ decPc = "decoded"
    /\ IsIntegerType(register)
    /\ register.divider # 0
    /\ value # None

\* C20: for an integer type and a non-zero divider, the scaled value is the
\* value itself when multiplier = divider = 1; otherwise it is the integer
\* value * multiplier / divider when that quotient is whole, and a float
\* that is not whole when it is not.
C20_ScalingIntegrality ==
    IntegerScaled =>
        IF ~NeedsScaling(register) THEN decoded = value
        ELSE IF Remainder(Times(value.man, register.multiplier),
                          register.divider) = 0
        THEN decoded = PyValue("int", value.neg,
                               Quotient(Times(value.man,
                                              register.multiplier),
                                        register.divider), 0)
        ELSE decoded.kind = "float" /\ ~Whole(decoded)

\* ---- ModbusMQTTBridge.load_configs ------------------------------------------
\* a register entry that parses, and one without 'tag', which does not
GoodEntry ==
    [type |-> "16uint", hasTag |-> TRUE, objectsCount |-> NoKey,
     multiplier |-> 1, divider |-> 1]

BadEntry == [GoodEntry EXCEPT !.hasTag = FALSE]

\* the slave entries looked at: with and without the keys 'unitId' and
\* 'port', with no register entry or with one
Slaves ==
    [unitId : BOOLEAN, port : BOOLEAN,
     entries : {<<>>, <<GoodEntry>>, <<BadEntry>>}]

FilesOf(n) == UNION {[1..k -> Slaves] : k \in 0..n}

\* config_parser.py lines 92-104: the registers of a slave, the entries
\* _parse_register answered None for left out
RegistersOf(slave) ==
    SelectSeq([j \in 1..Len(slave.entries) |->
                  ParseRegister(slave.entries[j])],
              LAMBDA r : r # None)

LoadInit ==
    /\ BridgeInit
    /\ keyOf = [u \in Units |-> 1]
    /\ nregs = [u \in Units |-> 1]
    /\ PublisherIdle
    /\ DecoderIdle
    /\ configFiles \in [1..MaxFiles -> FilesOf(MaxSlaves)]
    /\ fileIdx = 1
    /\ slaveIdx = 1
    /\ fileDevices = <<>>
    /\ devices = <<>>
    /\ loadPc = "load"

AtSlave ==
    /\ loadPc = "load"
    /\ fileIdx <= Len(configFiles)
    /\ slaveIdx <= Len(configFiles[fileIdx])

\* the device made of a slave entry, named by where the entry stands
Device(f, i) == <<f, i>>

\* lines 106-107 and 125-126: a slave without registers is skipped
ParseSlaveSkip ==
    /\ AtSlave
    /\ RegistersOf(configFiles[fileIdx][slaveIdx]) = <<>>
    /\ slaveIdx' = slaveIdx + 1
    /\ UNCHANGED <<configFiles, fileIdx, fileDevices, devices, loadPc,
                   loadOthers>>

\* lines 107-123: the device of a slave with registers
ParseSlaveDevice ==
    /\ AtSlave
    /\ RegistersOf(configFiles[fileIdx][slaveIdx]) # <<>>
    /\ configFiles[fileIdx][slaveIdx].unitId
    /\ configFiles[fileIdx][slaveIdx].port
    /\ fileDevices' = Append(fileDevices, Device(fileIdx, slaveIdx))
    /\ slaveIdx' = slaveIdx + 1
    /\ UNCHANGED <<configFiles, fileIdx, devices, loadPc, loadOthers>>

\* lines 110-111: slave['unitId'] or slave['port'] raises KeyError, which
\* leaves parse_thingsboard_config and is caught in load_configs
\* (main.py lines 105-106), which goes on with the next file
ParseSlaveRaise ==
    /\ AtSlave
    /\ RegistersOf(configFiles[fileIdx][slaveIdx]) # <<>>
    /\ \/ ~configFiles[fileIdx][slaveIdx].unitId
       \/ ~configFiles[fileIdx][slaveIdx].port
    /\ fileDevices' = <<>>
    /\ fileIdx' = fileIdx + 1
    /\ slaveIdx' = 1
    /\ UNCHANGED <<configFiles, devices, loadPc, loadOthers>>

\* line 128 and main.py lines 103-104: the devices of the file are returned
\* and added to self.devices
ParseReturn ==
    /\ loadPc = "load"
    /\ fileIdx <= Len(configFiles)
    /\ slaveIdx > Len(configFiles[fileIdx])
    /\ devices' = devices \o fileDevices
    /\ fileDevices' = <<>>
    /\ fileIdx' = fileIdx + 1
    /\ slaveIdx' = 1
    /\ UNCHANGED <<configFiles, loadPc, loadOthers>>

\* main.py lines 153-156: without a device run returns 1; else it goes on to
\* connect and to start one polling thread for each device
RunLoaded ==
    /\ loadPc = "load"
    /\ fileIdx > Len(configFiles)
    /\ loadPc' = IF devices = <<>> THEN "exit" ELSE "start"
    /\ UNCHANGED <<configFiles, fileIdx, slaveIdx, fileDevices, devices,
                   loadOthers>>

LoadNext ==
    \/ ParseSlaveSkip
    \/ ParseSlaveDevice
    \/ ParseSlaveRaise
    \/ ParseReturn
    \/ RunLoaded

LoadSpec == LoadInit /\ [][LoadNext]_vars

\* the entry has the device fields and a register that parses
WellFormed(slave) ==
    slave.unitId /\ slave.port /\ RegistersOf(slave) # <<>>

Loaded(f, i) == \E j \in 1..Len(devices) : devices[j] = Device(f, i)

\* C18: when the configuration has been loaded, every well-formed device of
\* every file is among the devices to poll, whatever is wrong with the other
\* entries, and the bridge starts when there is one.
C18_ErrorRemovesOnlyThatDevice ==
    loadPc \in {"exit", "start"} =>
        /\ \A f \in 1..Len(configFiles) :
              \A i \in 1..Len(configFiles[f]) :
                 WellFormed(configFiles[f][i]) => Loaded(f, i)
        /\ (\E f \in 1..Len(configFiles) :
               \E i \in 1..Len(configFiles[f]) :
                  WellFormed(configFiles[f][i]))
             => loadPc = "start"

\* the device answered with fewer words than the register takes
ShortAnswer ==
    /\ decPc \in {"decoded", "collected"}
    /\ Len(registers) < register.count

\* C21: when the device answers with fewer words than the register's count,
\* the decoder returns None, no value is assembled from the words that came,
\* and nothing is stored under the register's tag in the reading's data.
C21_ShortAnswerYieldsNoValue ==
    ShortAnswer => decoded = None /\ value = None /\ tagData = {}

C21_Witness ==
    /\ decPc = "collected"
    /\ register.count = 4
    /\ register.data_type = "uint64"
    /\ registers = <<65535, 1, 100>>
    /\ tagData = {}

RECURSIVE PlusCarry(_, _, _)
\* a + b + carry of two patterns of the same length
PlusCarry(a, b, carry) ==
    IF a = <<>> THEN Digits(carry)
    ELSE PlusCarry(SubSeq(a, 1, Len(a) - 1), SubSeq(b, 1, Len(b) - 1),
                   (a[Len(a)] + b[Len(b)] + carry) \div Base)
         \o <<(a[Len(a)] + b[Len(b)] + carry) % Base>>

\* a + b
Plus(a, b) ==
    LET n == IF Len(a) > Len(b) THEN Len(a) ELSE Len(b)
    IN Norm(PlusCarry(Pad(a, n), Pad(b, n), 0))

\* the words in the positions the word order gives them, first the most
\* significant
Placed == IF wordOrder = "BIG" THEN registers ELSE Reverse(registers)

\* an integer register whose words were decoded
IntegerDecoded ==
    /\ decPc = "decoded"
    /\ IsIntegerType(register)
    /\ value # None

\* C22: the value of an integer register before scaling is, for an unsigned
\* type, the integer assembled from its words, and for a signed type the
\* two's complement reading of that integer at 16 * count bits (assembled
\* - 2^(16 * count) when the top bit is set); and it is the same for both
\* byte orders.
C22_IntegerReadingAnyByteOrder ==
    IntegerDecoded =>
        /\ value.kind = "int" /\ value.exp = 0
        /\ register.data_type \in {"uint16", "uint32", "uint64"}
             => ~value.neg /\ value.man = Norm(Placed)
        /\ (/\ register.data_type \in {"int16", "int32", "int64"}
            /\ Placed[1] < Base \div 2)
             => ~value.neg /\ value.man = Norm(Placed)
        /\ (/\ register.data_type \in {"int16", "int32", "int64"}
            /\ Placed[1] >= Base \div 2)
             => /\ value.neg
                /\ Plus(value.man, Norm(Placed))
                     = <<1>> \o Zeros(register.count)
        /\ \A bo \in Orders :
              LocalValue(registers, register, bo, wordOrder) = value

\* ---- the key locks --------------------------------------------------------
\* this step stores another lock under key k than the one that was there
ReplacesLock(k) == locks[k] # 0 /\ locks'[k] # locks[k]

\* after this step u is about to acquire, or holds, the lock it looked up
\* (poll_device line 176)
OnLockNext(u) == pc'[u] \in {"pd_acquire", "read", "pace"}

\* C23: the lock stored under a transport key is never replaced by another
\* lock, and two units of the same key that hold or are about to acquire
\* their key lock have the same lock.
C23_OneLockPerKey ==
    [][/\ \A k \in Keys : ~ReplacesLock(k)
       /\ \A u, v \in Units :
             (keyOf[u] = keyOf[v] /\ OnLockNext(u) /\ OnLockNext(v))
                => myLock'[u] = myLock'[v]]_vars

\* ---- after close_all ------------------------------------------------------
\* close_all has been called and the main thread is no longer inside it
CloseAllReturned ==
    /\ closeAllCalls > 0
    /\ \A j \in 1..Len(stack) : stack[j].pc \notin {"ca_iter", "ca_clear"}

\* this step opens a connection (get_client lines 32-41)
OpensNow == opens' > opens

\* C24: once close_all has returned, no polling thread opens a connection or
\* reads a register, and self.clients stays empty.
C24_NothingAfterCloseAll ==
    [][CloseAllReturned =>
          /\ ~OpensNow
          /\ \A u \in Units : ~ReadsNow(u)
          /\ clients' = <<>>]_vars

====
